---- MODULE Spec2Model ----
(***************************************************************************)
(* Shell-surface lifecycle of the Anodium compositor framework:            *)
(* anodium-framework/src/shell/mod.rs (Inner, ShellManager),               *)
(* src/shell/shell_manager/wlr_layer.rs (layer-shell requests).            *)
(*                                                                         *)
(* Option<T> is a sequence: <<>> is None, <<v>> is Some(v).                *)
(* A Point is [x, y], a Size is [w, h].                                    *)
(***************************************************************************)
EXTENDS Integers, Sequences, FiniteSets, TLC

\* ------------------------------------------------------------------ bounds
NumSurfaces == 3
CountCap == 3
NumBorrowSurfaces == 2
NumKeysyms == 4

Surfaces == 1..NumSurfaces

VARIABLES
    alive,                   \* alive[s]: the client has not destroyed the wl_surface
    role,                    \* role[s]: the shell role the surface was given
    buffer,                  \* buffer[s]: Option<Size> of the committed buffer
    data,                    \* data[s]: Option<SurfaceData>, the data_map slot
    initial_configure_sent,  \* the role attributes' one-shot flag
    not_mapped_list,         \* Inner::not_mapped_list
    windows,                 \* Inner::windows
    layers,                  \* Inner::layers
    popups,                  \* Inner::popup_manager: the tracked popups
    panicked,                \* an expect()/unwrap() has panicked
    trace,                   \* what the last callback delivered, in order
    configures,              \* configures[s]: initial configures sent so far
    created,                 \* created[s]: WindowCreated notifications so far
    last,                    \* the callback that ran last
    parent,                  \* parent[s]: the surface s is a subsurface of (0: none)
    sync,                    \* sync[s]: the subsurface s is in synchronized mode
    borrows,                 \* live RefMut guards of the Rc<RefCell<Inner>>
    call,                    \* the callback that is running, and how far it got
    pressed_keys,            \* SeatState::pressed_keys
    recent,                  \* recent[k]: the state of the most recent event of keysym k
    key_event                \* the key event handled last

shell_vars == <<alive, role, buffer, data, initial_configure_sent, not_mapped_list,
                windows, layers, popups, panicked, trace, configures, created, last>>
tree_vars == <<parent, sync>>
borrow_vars == <<borrows, call>>
seat_vars == <<pressed_keys, recent, key_event>>

vars == <<shell_vars, tree_vars, borrow_vars, seat_vars>>

\* ----------------------------------------------------------------- helpers
None == <<>>
Some(v) == <<v>>

Range(q) == {q[i] : i \in 1..Len(q)}

Inc(n) == IF n < CountCap THEN n + 1 ELSE CountCap

Point(px, py) == [x |-> px, y |-> py]
Size(sw, sh) == [w |-> sw, h |-> sh]

\* ------------------------------------------------- per-surface auxiliary data
TOP == {"TOP"}
LEFT == {"LEFT"}
BOTTOM == {"BOTTOM"}
RIGHT == {"RIGHT"}
TOP_LEFT == {"TOP", "LEFT"}
BOTTOM_LEFT == {"BOTTOM", "LEFT"}
TOP_RIGHT == {"TOP", "RIGHT"}
BOTTOM_RIGHT == {"BOTTOM", "RIGHT"}

\* bitflags: a.intersects(b) is (a & b) != 0
intersects(a, b) == a \cap b # {}

NotResizing == [kind |-> "NotResizing"]
Resizing(d) == [kind |-> "Resizing", data |-> d]
WaitingForFinalAck(d, n) == [kind |-> "WaitingForFinalAck", data |-> d, serial |-> n]
WaitingForCommit(d) == [kind |-> "WaitingForCommit", data |-> d]

ResizeData(e, loc, size) ==
    [edges |-> e, initial_window_location |-> loc, initial_window_size |-> size]

MoveIdle == [kind |-> "Idle"]
MoveWaitingForCommit(t) == [kind |-> "WaitingForCommit", target_window_location |-> t]
MoveCurrent(t) == [kind |-> "Current", target_window_location |-> t]

SurfaceDataDefault == [resize_state |-> NotResizing, move_after_resize_state |-> MoveIdle]

\* ------------------------------------------------------------ notifications
WindowCreated(s) == [type |-> "WindowCreated", surface |-> s]
WindowGotResized(s, nx, ny) ==
    [type |-> "WindowGotResized", surface |-> s, new_location_x |-> nx, new_location_y |-> ny]
SurfaceCommit(s) == [type |-> "SurfaceCommit", surface |-> s]
PopupCreated(s) == [type |-> "PopupCreated", surface |-> s]
LayerCreated(s, o, l, n) ==
    [type |-> "LayerCreated", surface |-> s, output |-> o, layer |-> l, namespace |-> n]
\* to the protocol layer, not to the handler
LayerAckConfigure(s, c) == [type |-> "LayerAckConfigure", surface |-> s, configure |-> c]
SendConfigure(s) == [type |-> "send_configure", surface |-> s]
Panic(msg) == [type |-> "panic", message |-> msg]
\* a statement of surface_commit's body that calls a collaborator or a step of
\* the orchestrator: the log of a commit holds them among what they deliver
Call(name) == [type |-> "call", callee |-> name]

IsNotification(e) == e.type \notin {"send_configure", "panic"}
Notifications(t) == SelectSeq(t, IsNotification)
\* what a commit's statements deliver, without the calls themselves
Deliveries(log) == SelectSeq(log, LAMBDA e : e.type # "call")

\* --------------------------------------------------------- surface registries
\* surface_lists: ordered lists keyed by surface identity
find(list, s) == s \in Range(list)

push(list, s) == Append(list, s)

remove(list, s) == SelectSeq(list, LAMBDA e : e # s)

\* retain the entries whose surface is alive, in order
retain_alive(list, alv) == SelectSeq(list, LAMBDA e : alv[e])

\* NotMappedList::try_window_map: a pending toplevel with a committed buffer
\* leaves the pending list and becomes a Window
try_window_map(list, s, buf) ==
    IF find(list, s) /\ buf # None
    THEN [list |-> remove(list, s), window |-> Some(s)]
    ELSE [list |-> list, window |-> None]

\* PopupManager::find_popup
find_popup(tracked, s) == s \in tracked

\* ----------------------------------------------------- Inner::try_update_mapped
\* mutant: the size difference is taken the wrong way round
resize_location_negated(resize_state, size) ==
    IF resize_state.kind \in {"Resizing", "WaitingForFinalAck", "WaitingForCommit"}
    THEN LET d == resize_state.data IN
         IF intersects(d.edges, TOP_LEFT)
         THEN [x |-> IF intersects(d.edges, LEFT)
                     THEN Some(d.initial_window_location.x + (size.w - d.initial_window_size.w))
                     ELSE None,
               y |-> IF intersects(d.edges, TOP)
                     THEN Some(d.initial_window_location.y + (size.h - d.initial_window_size.h))
                     ELSE None]
         ELSE [x |-> None, y |-> None]
    ELSE [x |-> None, y |-> None]

\* mutant: the left edge's rule is applied to both horizontal edges and the top
\* edge's to both vertical ones
resize_location_any_edge(resize_state, size) ==
    IF resize_state.kind \in {"Resizing", "WaitingForFinalAck", "WaitingForCommit"}
    THEN LET d == resize_state.data IN
         [x |-> IF intersects(d.edges, LEFT \cup RIGHT)
                THEN Some(d.initial_window_location.x + (d.initial_window_size.w - size.w))
                ELSE None,
          y |-> IF intersects(d.edges, TOP \cup BOTTOM)
                THEN Some(d.initial_window_location.y + (d.initial_window_size.h - size.h))
                ELSE None]
    ELSE [x |-> None, y |-> None]

\* the location a resize by the top or left edge moves the window to
resize_location(resize_state, size) ==
    IF resize_state.kind \in {"Resizing", "WaitingForFinalAck", "WaitingForCommit"}
    THEN LET d == resize_state.data IN
         IF intersects(d.edges, TOP_LEFT)
         THEN [x |-> IF intersects(d.edges, LEFT)
                     THEN Some(d.initial_window_location.x + (d.initial_window_size.w - size.w))
                     ELSE None,
               y |-> IF intersects(d.edges, TOP)
                     THEN Some(d.initial_window_location.y + (d.initial_window_size.h - size.h))
                     ELSE None]
         ELSE [x |-> None, y |-> None]
    ELSE [x |-> None, y |-> None]

\* mutant: the finished resize is never cleared
finish_resizing_never(resize_state) == resize_state

\* "Finish resizing."
finish_resizing(resize_state) ==
    IF resize_state.kind = "WaitingForCommit" THEN NotResizing ELSE resize_state

\* mutant: the queued move is applied but stays queued
move_after_resize_stays_queued(move_state, loc) ==
    IF move_state.kind = "WaitingForCommit"
    THEN [location |-> [x |-> Some(move_state.target_window_location.x),
                        y |-> Some(move_state.target_window_location.y)],
          state |-> move_state]
    ELSE [location |-> loc, state |-> move_state]

\* mutant: the queued target only fills the axes the resize left absent
move_after_resize_fills_absent(move_state, loc) ==
    IF move_state.kind = "WaitingForCommit"
    THEN [location |-> [x |-> IF loc.x # None THEN loc.x
                              ELSE Some(move_state.target_window_location.x),
                        y |-> IF loc.y # None THEN loc.y
                              ELSE Some(move_state.target_window_location.y)],
          state |-> MoveCurrent(move_state.target_window_location)]
    ELSE [location |-> loc, state |-> move_state]

\* "If the compositor requested MoveAfterReszie": the location and the new state
move_after_resize(move_state, loc) ==
    IF move_state.kind = "WaitingForCommit"
    THEN [location |-> [x |-> Some(move_state.target_window_location.x),
                        y |-> Some(move_state.target_window_location.y)],
          state |-> MoveCurrent(move_state.target_window_location)]
    ELSE [location |-> loc, state |-> move_state]

\* the notification try_update_mapped ends with
got_resized(s, loc) ==
    IF loc.x # None \/ loc.y # None
    THEN <<WindowGotResized(s, loc.x, loc.y)>>
    ELSE <<>>

\* d is the surface's SurfaceData, size its window geometry's size
try_update_mapped(ws, s, d, size) ==
    IF find(ws, s)
    THEN LET m == move_after_resize(d.move_after_resize_state,
                                    resize_location(d.resize_state, size))
         IN [data |-> [resize_state |-> finish_resizing(d.resize_state),
                       move_after_resize_state |-> m.state],
             trace |-> got_resized(s, m.location)]
    ELSE [data |-> d, trace |-> <<>>]

\* ------------------------------------------------------- Inner::try_map_unmaped
\* mutant: the window is looked up in the pending list but never taken out of it
try_map_unmaped_keeps_pending(nm, ws, s, buf) ==
    LET r == try_window_map(nm, s, buf) IN
    [not_mapped_list |-> nm,
     windows |-> IF r.window # None THEN push(ws, r.window[1]) ELSE ws,
     trace |-> IF r.window # None THEN <<WindowCreated(r.window[1])>> ELSE <<>>]

\* mutant: the Option that try_window_map returns is not looked at
try_map_unmaped_unchecked(nm, ws, s, buf) ==
    LET r == try_window_map(nm, s, buf) IN
    [not_mapped_list |-> r.list,
     windows |-> IF buf # None THEN push(ws, s) ELSE ws,
     trace |-> IF buf # None THEN <<WindowCreated(s)>> ELSE <<>>]

\* the promotion of a pending toplevel
try_map_unmaped(nm, ws, s, buf) ==
    LET r == try_window_map(nm, s, buf) IN
    [not_mapped_list |-> r.list,
     windows |-> IF r.window # None THEN push(ws, r.window[1]) ELSE ws,
     trace |-> IF r.window # None THEN <<WindowCreated(r.window[1])>> ELSE <<>>]

\* the popup's initial configure is due
popup_configure_due(tracked, s, sent) == find_popup(tracked, s) /\ ~sent

\* mutant: the initial_configure_sent flag is not looked at
layer_configure_due_unflagged(ls, s, sent) == find(ls, s)

\* mutant: the layer registry is not looked at
layer_configure_due_unregistered(ls, s, sent) == ~sent

\* the layer surface's initial configure is due
layer_configure_due(ls, s, sent) == find(ls, s) /\ ~sent

\* ----------------------------------------------------------- surface_commit
\* on_commit_buffer_handler: the attached buffer, if any, becomes current
on_commit_buffer_handler(cur, buf) == IF buf # None THEN buf ELSE cur

\* data_map.insert_if_missing(SurfaceData::default)
insert_if_missing(slot) == IF slot = None THEN Some(SurfaceDataDefault) ELSE slot

\* the surfaces from s up to the root of its subsurface tree
RECURSIVE ancestors(_)
ancestors(s) == IF parent[s] = 0 THEN {s} ELSE {s} \cup ancestors(parent[s])

\* the surfaces with_surface_tree_upward visits: s and its subsurface subtree
surface_tree(s) == {t \in Surfaces : alive[t] /\ s \in ancestors(t)}

\* compositor::is_sync_subsurface: s or one of its ancestors is synchronized
RECURSIVE is_sync_subsurface(_)
is_sync_subsurface(s) == parent[s] # 0 /\ (sync[s] \/ is_sync_subsurface(parent[s]))

\* mutant: the slots of the subtree are reset on every commit
init_surface_tree_resets(d, s) ==
    IF is_sync_subsurface(s) THEN d
    ELSE [t \in Surfaces |-> IF t \in surface_tree(s) THEN Some(SurfaceDataDefault) ELSE d[t]]

\* mutant: a synchronized subsurface initialises its subtree as well
init_surface_tree_ignores_sync(d, s) ==
    [t \in Surfaces |-> IF t \in surface_tree(s) THEN insert_if_missing(d[t]) ELSE d[t]]

\* unless s is a synchronized subsurface, every surface of its subtree gets a
\* SurfaceData slot if it has none
init_surface_tree(d, s) ==
    IF is_sync_subsurface(s) THEN d
    ELSE [t \in Surfaces |-> IF t \in surface_tree(s) THEN insert_if_missing(d[t]) ELSE d[t]]

\* the notification surface_commit ends with
commit_tail(s) == <<SurfaceCommit(s)>>

\* ---- the handler's on_shell_event, called in the middle of surface_commit
\* What the handler does when it is notified: it returns, or it calls
\* ShellManager::refresh, or it queues a move-after-resize for the window.
Return == [kind |-> "return"]
CallsRefresh == [kind |-> "refresh"]
QueuesMove(t) == [kind |-> "queue_move", target |-> t]
Reactions(targets) == {Return, CallsRefresh} \cup {QueuesMove(t) : t \in targets}

\* the handler's reaction to each notification a commit can deliver
Handlers(targets) ==
    [created : Reactions(targets), resized : Reactions(targets), commit : Reactions(targets)]

\* mutant: mutable access is handed out without looking at the borrow flag
borrow_mut_unchecked(b) == TRUE

\* RefCell::borrow_mut succeeds only while no other guard is alive
borrow_mut_allowed(b) == b = 0

\* mutant: the guard is dropped before the handler is notified
callback_borrow_dropped(b) == b

\* the guards alive while a callback's body and its notifications run
callback_borrow(b) == b + 1

\* the handler's move request: the target waits for the window's next update
queued_move(d, s, target) ==
    [d EXCEPT ![s] = Some([@[1] EXCEPT !.move_after_resize_state = MoveWaitingForCommit(target)])]

\* the handler may queue a move for s: s is a mapped window and has none queued
may_queue_move(ws, d, s) ==
    /\ find(ws, s)
    /\ d[s] # None
    /\ d[s][1].move_after_resize_state.kind # "WaitingForCommit"

\* the surface data after the handler's reaction r
react(r, ws, d, s) == IF r.kind = "queue_move" THEN queued_move(d, s, r.target) ELSE d

\* r is something the handler can do while the callback holds `held` guards:
\* refresh's borrow_mut panics, a move can be queued for a mapped window only
can_react(r, held, ws, d, s) ==
    /\ r.kind = "refresh" => ~borrow_mut_allowed(held)
    /\ r.kind = "queue_move" => may_queue_move(ws, d, s)

\* What a commit of s comes to. buf: the buffer the client attached (None:
\* none); send_ok: the outcome of the popup's send_configure(), which the code
\* expect()s; h: what the handler does at each notification; held: the RefMut
\* guards alive while the body runs. The commit stops at the first panic: the
\* handler's refresh at WindowCreated ("created"), the popup's failed send
\* ("send"), the handler's refresh at WindowGotResized ("resized") or at
\* SurfaceCommit ("commit"). `possible` says that h is something the handler
\* can do, and does nothing at a notification that is not delivered.
commit_outcome(s, buf, send_ok, h, held) ==
    LET size1 == on_commit_buffer_handler(buffer[s], buf)
        data1 == init_surface_tree(data, s)
        m == try_map_unmaped(not_mapped_list, windows, s, size1)
        promoted == m.trace # <<>>
        data2 == IF promoted THEN react(h.created, m.windows, data1, s) ELSE data1
        popup_due == popup_configure_due(popups, s, initial_configure_sent[s])
        sent1 == initial_configure_sent[s] \/ popup_due
        mapped == find(m.windows, s)
        u == try_update_mapped(m.windows, s, data2[s][1], size1[1])
        resized == mapped /\ u.trace # <<>>
        data3 == IF mapped THEN [data2 EXCEPT ![s] = Some(u.data)] ELSE data2
        data4 == IF resized THEN react(h.resized, m.windows, data3, s) ELSE data3
        layer_due == layer_configure_due(layers, s, sent1)
        stop == IF promoted /\ h.created.kind = "refresh" THEN "created"
                ELSE IF popup_due /\ ~send_ok THEN "send"
                ELSE IF resized /\ h.resized.kind = "refresh" THEN "resized"
                ELSE IF h.commit.kind = "refresh" THEN "commit"
                ELSE "none"
        \* lines 237, 238, 240-253 and the call at 256, with what try_map_unmaped
        \* delivers first
        head == <<Call("on_commit_buffer_handler"), Call("popup_manager.commit")>>
                \o (IF is_sync_subsurface(s) THEN <<>>
                    ELSE <<Call("with_surface_tree_upward")>>)
                \o <<Call("try_map_unmaped")>>
                \o m.trace
        log ==
            IF stop = "created" THEN head \o <<Panic("already borrowed")>>
            ELSE IF stop = "send" THEN head \o <<Panic("Initial configure failed")>>
            ELSE head
                 \o (IF popup_due THEN <<SendConfigure(s)>> ELSE <<>>)
                 \o <<Call("try_update_mapped")>>
                 \o (IF mapped THEN u.trace ELSE <<>>)
                 \o (IF stop = "resized" THEN <<Panic("already borrowed")>>
                     ELSE (IF layer_due THEN <<SendConfigure(s)>> ELSE <<>>)
                          \o commit_tail(s)
                          \o (IF stop = "commit" THEN <<Panic("already borrowed")>> ELSE <<>>))
        possible ==
            /\ IF promoted THEN can_react(h.created, held, m.windows, data1, s)
                           ELSE h.created = Return
            /\ IF resized /\ stop \notin {"created", "send"}
                  THEN can_react(h.resized, held, m.windows, data3, s)
                  ELSE h.resized = Return
            /\ IF stop \in {"commit", "none"}
                  THEN can_react(h.commit, held, m.windows, data4, s)
                  ELSE h.commit = Return
    IN
    IF ~possible THEN [possible |-> FALSE] ELSE
    [possible |-> TRUE,
     buffer |-> size1,
     not_mapped_list |-> m.not_mapped_list,
     windows |-> m.windows,
     promoted |-> promoted,
     panicked |-> stop # "none",
     data |-> IF stop \in {"created", "send"} THEN data1
              ELSE IF stop = "resized" THEN data3
              ELSE react(h.commit, m.windows, data4, s),
     sent |-> IF stop \in {"created", "send"} THEN initial_configure_sent[s]
              ELSE IF stop = "resized" THEN sent1
              ELSE sent1 \/ layer_due,
     configures |-> (IF popup_due /\ stop \notin {"created", "send"} THEN 1 ELSE 0)
                    + (IF layer_due /\ stop \in {"commit", "none"} THEN 1 ELSE 0),
     steps |-> log,
     trace |-> Deliveries(log)]

\* the state the commit leaves
commit_applies(s, h, r) ==
    /\ r.possible
    /\ buffer' = [buffer EXCEPT ![s] = r.buffer]
    /\ not_mapped_list' = r.not_mapped_list
    /\ windows' = r.windows
    /\ created' = IF r.promoted THEN [created EXCEPT ![s] = Inc(@)] ELSE created
    /\ panicked' = r.panicked
    /\ data' = r.data
    /\ initial_configure_sent' = [initial_configure_sent EXCEPT ![s] = r.sent]
    /\ configures' = [configures EXCEPT ![s] = IF r.configures = 0 THEN @
                                               ELSE IF r.configures = 1 THEN Inc(@)
                                               ELSE Inc(Inc(@))]
    /\ trace' = r.trace
    /\ last' = [op |-> "surface_commit", surface |-> s, handler |-> h, steps |-> r.steps]
    /\ UNCHANGED <<alive, role, layers, popups>>

\* the compositor_init callback's body
surface_commit(s, buf, send_ok, h) ==
    /\ ~panicked
    /\ alive[s]
    /\ h.created # Return => find(not_mapped_list, s)
    /\ h.resized # Return => find(not_mapped_list, s) \/ find(windows, s)
    /\ h.commit.kind = "queue_move" => find(not_mapped_list, s) \/ find(windows, s)
    /\ commit_applies(s, h, commit_outcome(s, buf, send_ok, h, callback_borrow(borrows)))

\* ------------------------------------------------------- ShellManager::refresh
\* mutant: the window list is refreshed twice and the layer list never
refresh_lists_skips_layers(ws, ls, nm, alv) ==
    [windows |-> retain_alive(retain_alive(ws, alv), alv),
     layers |-> ls,
     not_mapped_list |-> retain_alive(nm, alv)]

refresh_lists(ws, ls, nm, alv) ==
    [windows |-> retain_alive(ws, alv),
     layers |-> retain_alive(ls, alv),
     not_mapped_list |-> retain_alive(nm, alv)]

refresh ==
    /\ ~panicked
    /\ LET r == refresh_lists(windows, layers, not_mapped_list, alive) IN
       /\ windows' = r.windows
       /\ layers' = r.layers
       /\ not_mapped_list' = r.not_mapped_list
    /\ trace' = <<>>
    /\ last' = [op |-> "refresh", surface |-> 0]
    /\ UNCHANGED <<alive, role, buffer, data, initial_configure_sent, popups,
                   panicked, configures, created>>

\* ------------------------------------------------------------ shell requests
\* XdgRequest::NewToplevel: the surface waits in the pending list for a buffer
new_toplevel(s) ==
    /\ ~panicked
    /\ alive[s]
    /\ role[s] = "none"
    /\ role' = [role EXCEPT ![s] = "toplevel"]
    /\ not_mapped_list' = push(not_mapped_list, s)
    /\ trace' = <<>>
    /\ last' = [op |-> "new_toplevel", surface |-> s]
    /\ UNCHANGED <<alive, buffer, data, initial_configure_sent, windows, layers,
                   popups, panicked, configures, created>>

\* XdgRequest::NewPopup: the popup manager tracks the popup
new_popup(s) ==
    /\ ~panicked
    /\ alive[s]
    /\ role[s] = "none"
    /\ role' = [role EXCEPT ![s] = "popup"]
    /\ popups' = popups \cup {s}
    /\ trace' = <<PopupCreated(s)>>
    /\ last' = [op |-> "new_popup", surface |-> s]
    /\ UNCHANGED <<alive, buffer, data, initial_configure_sent, not_mapped_list,
                   windows, layers, panicked, configures, created>>

Outputs == {None, Some(1)}
LayerKinds == {"Background", "Top"}
Namespaces == {"panel"}

\* mutant: the output the client asked for is dropped
layer_created_any_output(s, output, layer, namespace) ==
    <<LayerCreated(s, None, layer, namespace)>>

\* what the handler does with a NewLayerSurface request: one LayerCreated
layer_created(s, output, layer, namespace) ==
    <<LayerCreated(s, output, layer, namespace)>>

\* mutant: the LayerEntry is constructed and never kept
layers_insert_dropped(ls, s) == ls

\* the LayerEntry constructed for the request enters the mapped-layer registry
layers_insert(ls, s) == push(ls, s)

\* LayerShellRequest::NewLayerSurface, as handled by the method the layer-shell
\* callback of init_shell calls on Inner<D> (wlr_layer_shell_request(request,
\* &mut D), declared by `mod wlr_layer;`). Inner<D>::layers is filled nowhere
\* else, so the entry is created here. The handler of the same name in
\* shell_manager/wlr_layer.rs belongs to the earlier, non-generic Inner (it
\* calls self.cb with the DispatchData, a field Inner<D> does not have) and
\* has no layer registry to fill; what it delivers is layer_created.
new_layer_surface(s, output, layer, namespace) ==
    /\ ~panicked
    /\ alive[s]
    /\ role[s] = "none"
    /\ role' = [role EXCEPT ![s] = "layer"]
    /\ layers' = layers_insert(layers, s)
    /\ trace' = layer_created(s, output, layer, namespace)
    /\ last' = [op |-> "new_layer_surface", surface |-> s,
                output |-> output, layer |-> layer, namespace |-> namespace]
    /\ UNCHANGED <<alive, buffer, data, initial_configure_sent, not_mapped_list,
                   windows, popups, panicked, configures, created>>

\* the configures a client may acknowledge: the serial is the client's choice
AckSerials == {1, 99}
AckConfigures == {[serial |-> n, new_size |-> Size(100, 50)] : n \in AckSerials}

\* mutant: only the serial of the initial configure is let through
layer_ack_checks_serial(s, configure) ==
    IF configure.serial = 1 THEN <<LayerAckConfigure(s, configure)>> ELSE <<>>

\* what the handler does with an AckConfigure request: one LayerAckConfigure
layer_ack(s, configure) == <<LayerAckConfigure(s, configure)>>

\* LayerShellRequest::AckConfigure
layer_ack_configure(s, configure) ==
    /\ ~panicked
    /\ alive[s]
    /\ role[s] = "layer"
    /\ trace' = layer_ack(s, configure)
    /\ last' = [op |-> "layer_ack_configure", surface |-> s, configure |-> configure]
    /\ UNCHANGED <<alive, role, buffer, data, initial_configure_sent, not_mapped_list,
                   windows, layers, popups, panicked, configures, created>>

\* the client destroys the surface: its buffer and its data_map go with it; the
\* registries keep their entries until refresh()
surface_destroyed(s) ==
    /\ ~panicked
    /\ alive[s]
    /\ alive' = [alive EXCEPT ![s] = FALSE]
    /\ data' = [data EXCEPT ![s] = None]
    /\ buffer' = [buffer EXCEPT ![s] = None]
    /\ trace' = <<>>
    /\ last' = [op |-> "surface_destroyed", surface |-> s]
    /\ UNCHANGED <<role, initial_configure_sent, not_mapped_list, windows,
                   layers, popups, panicked, configures, created>>

\* ------------------------------------------------------------ specification
CommitSizes == {Size(100, 50)}
CommitTargets == {Point(7, 9)}
CommitHandlers == Handlers(CommitTargets)

\* the outcomes of the popup's send_configure() a commit of s can meet: the
\* commit calls it only for a tracked popup whose flag is false
SendOutcomes(s) ==
    IF popup_configure_due(popups, s, initial_configure_sent[s]) THEN BOOLEAN ELSE {TRUE}

\* no surface is a subsurface
NoSubsurfaces ==
    /\ parent = [s \in Surfaces |-> 0]
    /\ sync = [s \in Surfaces |-> FALSE]

\* no callback is running
Idle == [cb |-> "none", phase |-> "idle", n |-> 0]

\* init_shell: the RefCell is new, nothing has been dispatched
NotBorrowed ==
    /\ borrows = 0
    /\ call = Idle

Keysyms == 1..NumKeysyms

\* SeatState::default(): no key is pressed
NoKeys ==
    /\ pressed_keys = {}
    /\ recent = [k \in Keysyms |-> "none"]
    /\ key_event = [keysym |-> 0, state |-> "none", held |-> FALSE]

\* the parts of the state a shell callback, taken as one step, leaves alone:
\* its RefMut guard is taken and dropped within the step
outside_shell == <<tree_vars, borrow_vars, seat_vars>>

Init ==
    /\ alive = [s \in Surfaces |-> TRUE]
    /\ role = [s \in Surfaces |-> "none"]
    /\ buffer = [s \in Surfaces |-> None]
    /\ data = [s \in Surfaces |-> None]
    /\ initial_configure_sent = [s \in Surfaces |-> FALSE]
    /\ not_mapped_list = <<>>
    /\ windows = <<>>
    /\ layers = <<>>
    /\ popups = {}
    /\ panicked = FALSE
    /\ trace = <<>>
    /\ configures = [s \in Surfaces |-> 0]
    /\ created = [s \in Surfaces |-> 0]
    /\ last = [op |-> "init", surface |-> 0]
    /\ NoSubsurfaces
    /\ NotBorrowed
    /\ NoKeys

Commit == \E s \in Surfaces, buf \in {None} \cup {Some(z) : z \in CommitSizes},
              h \in CommitHandlers :
              \E ok \in SendOutcomes(s) :
                  surface_commit(s, buf, ok, h) /\ UNCHANGED outside_shell
NewToplevel == \E s \in Surfaces : new_toplevel(s) /\ UNCHANGED outside_shell
NewPopup == \E s \in Surfaces : new_popup(s) /\ UNCHANGED outside_shell
NewLayerSurface == \E s \in Surfaces, o \in Outputs, l \in LayerKinds, n \in Namespaces :
                       new_layer_surface(s, o, l, n) /\ UNCHANGED outside_shell
AckConfigure == \E s \in Surfaces, c \in AckConfigures :
                    layer_ack_configure(s, c) /\ UNCHANGED outside_shell
SurfaceDestroyed == \E s \in Surfaces : surface_destroyed(s) /\ UNCHANGED outside_shell
Refresh == refresh /\ UNCHANGED outside_shell

Next ==
    \/ Commit
    \/ NewToplevel
    \/ NewPopup
    \/ NewLayerSurface
    \/ AckConfigure
    \/ SurfaceDestroyed
    \/ Refresh

Spec == Init /\ [][Next]_vars

\* ------------------------------------------- interactive resize of a window
\* The handler's resize grab and the toplevel's ack-configure drive
\* ResizeState; the commit path (try_update_mapped) reads and finishes it.
LegalEdges == {TOP, BOTTOM, LEFT, RIGHT, TOP_LEFT, BOTTOM_LEFT, TOP_RIGHT, BOTTOM_RIGHT}
Locations == {Point(10, 20), Point(0, 0)}
Targets == {Point(7, 9), Point(0, 0)}
ResizeSizes == {Size(100, 50), Size(80, 50), Size(200, 200), Size(150, 150)}
Serials == {1}
ResizeHandlers == Handlers(Targets)

has_window_data(s) == ~panicked /\ alive[s] /\ find(windows, s) /\ data[s] # None

set_resize_state(s, st) ==
    /\ data' = [data EXCEPT ![s] = Some([@[1] EXCEPT !.resize_state = st])]
    /\ trace' = <<>>
    /\ UNCHANGED <<alive, role, buffer, initial_configure_sent, not_mapped_list,
                   windows, layers, popups, panicked, configures, created>>

\* the resize grab starts: NotResizing -> Resizing
start_resize(s, edges, loc) ==
    /\ has_window_data(s)
    /\ data[s][1].resize_state.kind = "NotResizing"
    /\ set_resize_state(s, Resizing(ResizeData(edges, loc, buffer[s][1])))
    /\ last' = [op |-> "start_resize", surface |-> s]

\* the grab ends: Resizing -> WaitingForFinalAck
grab_end(s, serial) ==
    /\ has_window_data(s)
    /\ data[s][1].resize_state.kind = "Resizing"
    /\ set_resize_state(s, WaitingForFinalAck(data[s][1].resize_state.data, serial))
    /\ last' = [op |-> "grab_end", surface |-> s]

\* the client acknowledges the final configure: WaitingForFinalAck -> WaitingForCommit
ack_final_configure(s) ==
    /\ has_window_data(s)
    /\ data[s][1].resize_state.kind = "WaitingForFinalAck"
    /\ set_resize_state(s, WaitingForCommit(data[s][1].resize_state.data))
    /\ last' = [op |-> "ack_final_configure", surface |-> s]

\* the compositor queues a move for the commit that ends the resize
queue_move(s, target) ==
    /\ ~panicked
    /\ alive[s]
    /\ may_queue_move(windows, data, s)
    /\ data' = queued_move(data, s, target)
    /\ trace' = <<>>
    /\ last' = [op |-> "queue_move", surface |-> s]
    /\ UNCHANGED <<alive, role, buffer, initial_configure_sent, not_mapped_list,
                   windows, layers, popups, panicked, configures, created>>

\* one mapped window, as new_toplevel and its first commit leave it
InitResize ==
    /\ alive = [s \in Surfaces |-> TRUE]
    /\ role = [s \in Surfaces |-> IF s = 1 THEN "toplevel" ELSE "none"]
    /\ \E z \in ResizeSizes : buffer = [s \in Surfaces |-> IF s = 1 THEN Some(z) ELSE None]
    /\ data = [s \in Surfaces |-> IF s = 1 THEN Some(SurfaceDataDefault) ELSE None]
    /\ initial_configure_sent = [s \in Surfaces |-> FALSE]
    /\ not_mapped_list = <<>>
    /\ windows = <<1>>
    /\ layers = <<>>
    /\ popups = {}
    /\ panicked = FALSE
    /\ trace = <<WindowCreated(1), SurfaceCommit(1)>>
    /\ configures = [s \in Surfaces |-> 0]
    /\ created = [s \in Surfaces |-> IF s = 1 THEN 1 ELSE 0]
    /\ last = [op |-> "surface_commit", surface |-> 1]
    /\ NoSubsurfaces
    /\ NotBorrowed
    /\ NoKeys

CommitWindow == \E s \in Range(windows), buf \in {None} \cup {Some(z) : z \in ResizeSizes},
                    h \in ResizeHandlers :
                    surface_commit(s, buf, TRUE, h) /\ UNCHANGED outside_shell
StartResize == \E s \in Range(windows), e \in LegalEdges, p \in Locations :
                   start_resize(s, e, p) /\ UNCHANGED outside_shell
GrabEnd == \E s \in Range(windows), n \in Serials : grab_end(s, n) /\ UNCHANGED outside_shell
AckFinalConfigure == \E s \in Range(windows) : ack_final_configure(s) /\ UNCHANGED outside_shell
QueueMove == \E s \in Range(windows), p \in Targets : queue_move(s, p) /\ UNCHANGED outside_shell

NextResize ==
    \/ CommitWindow
    \/ StartResize
    \/ GrabEnd
    \/ AckFinalConfigure
    \/ QueueMove

SpecResize == InitResize /\ [][NextResize]_vars

\* ------------------------------------- commits in a tree of several surfaces
\* A mapped window with a subsurface, and a second surface that takes a role
\* (toplevel, popup or layer surface): commits of all of them interleave with
\* the resize drivers.
TreeEdges == {TOP_LEFT, RIGHT}
TreeLocations == {Point(10, 20)}
TreeTargets == {Point(7, 9)}
TreeSizes == {Size(80, 50)}
TreeHandlers == Handlers(TreeTargets)

\* surface 1 is mapped, surface 2 has no role yet, surface 3 is a subsurface
\* of 1 in either mode
InitTree ==
    /\ alive = [s \in Surfaces |-> TRUE]
    /\ role = [s \in Surfaces |-> IF s = 1 THEN "toplevel"
                                  ELSE IF s = 3 THEN "subsurface" ELSE "none"]
    /\ buffer = [s \in Surfaces |-> IF s = 1 THEN Some(Size(100, 50)) ELSE None]
    /\ data = [s \in Surfaces |-> IF s = 1 THEN Some(SurfaceDataDefault) ELSE None]
    /\ initial_configure_sent = [s \in Surfaces |-> FALSE]
    /\ not_mapped_list = <<>>
    /\ windows = <<1>>
    /\ layers = <<>>
    /\ popups = {}
    /\ panicked = FALSE
    /\ trace = <<>>
    /\ configures = [s \in Surfaces |-> 0]
    /\ created = [s \in Surfaces |-> IF s = 1 THEN 1 ELSE 0]
    /\ last = [op |-> "init", surface |-> 0]
    /\ parent = [s \in Surfaces |-> IF s = 3 THEN 1 ELSE 0]
    /\ \E b \in BOOLEAN : sync = [s \in Surfaces |-> s = 3 /\ b]
    /\ NotBorrowed
    /\ NoKeys

CommitTree == \E s \in Surfaces, buf \in {None} \cup {Some(z) : z \in TreeSizes},
                  h \in TreeHandlers :
                  \E ok \in SendOutcomes(s) :
                      surface_commit(s, buf, ok, h) /\ UNCHANGED outside_shell
StartResizeTree == \E s \in Range(windows), e \in TreeEdges, p \in TreeLocations :
                       start_resize(s, e, p) /\ UNCHANGED outside_shell
GrabEndTree == \E s \in Range(windows), n \in Serials :
                   grab_end(s, n) /\ UNCHANGED outside_shell
AckFinalConfigureTree == \E s \in Range(windows) :
                             ack_final_configure(s) /\ UNCHANGED outside_shell
QueueMoveTree == \E s \in Range(windows), p \in TreeTargets :
                     queue_move(s, p) /\ UNCHANGED outside_shell

NextTree ==
    \/ CommitTree
    \/ NewToplevel
    \/ NewPopup
    \/ NewLayerSurface
    \/ StartResizeTree
    \/ GrabEndTree
    \/ AckFinalConfigureTree
    \/ QueueMoveTree

SpecTree == InitTree /\ [][NextTree]_vars

\* --------------------------------------- the RefCell around the orchestrator
\* The three callbacks of init_shell and ShellManager::refresh reach Inner
\* through inner.borrow_mut(). A callback's RefMut is a temporary of the
\* statement that calls the handler, so it lives until the handler returns;
\* here a callback is three steps: borrow and run, the handler's
\* on_shell_event, return and drop.
BorrowSurfaces == 1..NumBorrowSurfaces

\* a callback of init_shell has borrowed Inner and run its body. A request
\* handler notifies as its last statement: on_shell_event is what runs now.
\* surface_commit notifies in the middle of its body, so the handler's reactions
\* are part of its step.
callback_entered(cb) ==
    /\ call = Idle
    /\ borrow_mut_allowed(borrows)
    /\ borrows' = callback_borrow(borrows)
    /\ call' = [cb |-> cb,
                phase |-> IF panicked'
                          THEN IF trace'[Len(trace')] = Panic("already borrowed")
                               THEN "reentered" ELSE "panicked"
                          ELSE IF cb # "surface_commit" /\ Notifications(trace') # <<>>
                          THEN "handler"
                          ELSE "body",
                n |-> 0]
    /\ UNCHANGED <<tree_vars, seat_vars>>

\* the handler's on_shell_event calls ShellManager::refresh: its first
\* statement asks for a second RefMut
handler_calls_refresh ==
    /\ ~panicked
    /\ call.phase = "handler"
    /\ call' = [call EXCEPT !.phase = "reentered"]
    /\ IF borrow_mut_allowed(borrows)
       THEN /\ borrows' = borrows + 1
            /\ UNCHANGED <<panicked, trace>>
       ELSE \* "already borrowed: BorrowMutError"
            /\ panicked' = TRUE
            /\ trace' = trace \o <<Panic("already borrowed")>>
            /\ UNCHANGED borrows
    /\ UNCHANGED <<alive, role, buffer, data, initial_configure_sent, not_mapped_list,
                   windows, layers, popups, configures, created, last>>
    /\ UNCHANGED <<tree_vars, seat_vars>>

\* the handler returns, the callback's statement ends and its RefMut is dropped
callback_returns ==
    /\ ~panicked
    /\ call.phase \in {"handler", "body"}
    /\ borrows' = IF borrows > 0 THEN borrows - 1 ELSE 0
    /\ call' = Idle
    /\ UNCHANGED <<shell_vars, tree_vars, seat_vars>>

\* ShellManager::refresh called between events: a statement's borrow_mut
refresh_borrow ==
    /\ ~panicked
    /\ call = Idle \/ (call.cb = "refresh" /\ call.phase = "released")
    /\ borrow_mut_allowed(borrows)
    /\ borrows' = borrows + 1
    /\ call' = [cb |-> "refresh", phase |-> "borrowed", n |-> call.n]
    /\ UNCHANGED <<shell_vars, tree_vars, seat_vars>>

\* the statement refreshes its list and drops its RefMut; the third returns
refresh_statement ==
    /\ ~panicked
    /\ call.cb = "refresh" /\ call.phase = "borrowed"
    /\ LET r == refresh_lists(windows, layers, not_mapped_list, alive) IN
       /\ windows' = IF call.n = 0 THEN r.windows ELSE windows
       /\ layers' = IF call.n = 1 THEN r.layers ELSE layers
       /\ not_mapped_list' = IF call.n = 2 THEN r.not_mapped_list ELSE not_mapped_list
    /\ borrows' = borrows - 1
    /\ call' = IF call.n = 2 THEN Idle
               ELSE [cb |-> "refresh", phase |-> "released", n |-> call.n + 1]
    /\ trace' = <<>>
    /\ last' = [op |-> "refresh", surface |-> 0]
    /\ UNCHANGED <<alive, role, buffer, data, initial_configure_sent, popups,
                   panicked, configures, created>>
    /\ UNCHANGED <<tree_vars, seat_vars>>

CommitCallback ==
    \E s \in BorrowSurfaces, buf \in {None} \cup {Some(z) : z \in CommitSizes},
       h \in CommitHandlers :
        \E ok \in SendOutcomes(s) :
            surface_commit(s, buf, ok, h) /\ callback_entered("surface_commit")
XdgCallback ==
    \E s \in BorrowSurfaces :
        (new_toplevel(s) \/ new_popup(s)) /\ callback_entered("xdg_shell_request")
LayerCallback ==
    \E s \in BorrowSurfaces :
        /\ \/ \E o \in Outputs, l \in LayerKinds, n \in Namespaces : new_layer_surface(s, o, l, n)
           \/ \E c \in AckConfigures : layer_ack_configure(s, c)
        /\ callback_entered("wlr_layer_shell_request")
HandlerCallsRefresh == handler_calls_refresh
CallbackReturns == callback_returns
RefreshBorrow == refresh_borrow
RefreshStatement == refresh_statement
DestroyedBetweenEvents ==
    \E s \in BorrowSurfaces :
        call = Idle /\ surface_destroyed(s) /\ UNCHANGED outside_shell

NextBorrow ==
    \/ CommitCallback
    \/ XdgCallback
    \/ LayerCallback
    \/ HandlerCallsRefresh
    \/ CallbackReturns
    \/ RefreshBorrow
    \/ RefreshStatement
    \/ DestroyedBetweenEvents

SpecBorrow == Init /\ [][NextBorrow]_vars

\* ------------------------------------------------------ the seat's pressed keys
KeyStates == {"Pressed", "Released"}

\* mutant: pressing a key that is held releases it
update_pressed_keys_toggles(keys, keysym, state) ==
    IF state = "Pressed"
    THEN IF keysym \in keys THEN keys \ {keysym} ELSE keys \cup {keysym}
    ELSE keys \ {keysym}

\* HashSet::insert on Pressed, HashSet::remove on any other state
update_pressed_keys(keys, keysym, state) ==
    IF state = "Pressed" THEN keys \cup {keysym} ELSE keys \ {keysym}

\* SeatState::update_pressed_keys on a keyboard event
key_input(keysym, state) ==
    /\ pressed_keys' = update_pressed_keys(pressed_keys, keysym, state)
    /\ recent' = [recent EXCEPT ![keysym] = state]
    /\ key_event' = [keysym |-> keysym, state |-> state, held |-> keysym \in pressed_keys]
    /\ UNCHANGED <<shell_vars, tree_vars, borrow_vars>>

KeyInput == \E k \in Keysyms, st \in KeyStates : key_input(k, st)

NextSeat == KeyInput

SpecSeat == Init /\ [][NextSeat]_vars

\* ================================================================== claims
Count(q, e) == Cardinality({i \in 1..Len(q) : q[i] = e})
TypeCount(q, ty) == Cardinality({i \in 1..Len(q) : q[i].type = ty})
CommitOf(s) == last.op = "surface_commit" /\ last.surface = s
\* this step is a commit of s
CommitStep(s) == last'.op = "surface_commit" /\ last'.surface = s

\* C1: every surface commit delivers exactly one SurfaceCommit notification, as
\* the last notification of the commit; a WindowCreated of the same commit comes
\* before a WindowGotResized, and both before the SurfaceCommit.
C1_CommitNotifiedOnceLast ==
    \A s \in Surfaces :
        CommitOf(s) =>
            LET n == Notifications(trace) IN
            /\ Len(n) >= 1
            /\ n[Len(n)] = SurfaceCommit(s)
            /\ TypeCount(n, "SurfaceCommit") = 1
            /\ \A i, j \in 1..Len(n) :
                   (n[i].type = "WindowCreated" /\ n[j].type = "WindowGotResized") => i < j

\* C2: a popup's or layer surface's initial configure is sent at most once over
\* any sequence of commits: a step sends it only while the flag is false and no
\* configure was sent before, sends it once, and leaves the flag set.
C2_InitialConfigureOnce ==
    [][\A s \in Surfaces :
          Count(trace', SendConfigure(s)) > 0 =>
              /\ Count(trace', SendConfigure(s)) = 1
              /\ ~initial_configure_sent[s]
              /\ configures[s] = 0
              /\ initial_configure_sent'[s]
              /\ configures'[s] = 1]_vars

\* a commit storm: a popup and a layer surface have both had their configure,
\* and the last commit of one of them sent nothing
C2_Witness ==
    \E p, l \in Surfaces :
        /\ role[p] = "popup" /\ configures[p] = 1
        /\ role[l] = "layer" /\ configures[l] = 1
        /\ \E s \in {p, l} : CommitOf(s) /\ trace = <<SurfaceCommit(s)>>

\* C3: a pending surface is promoted at most once: at most one WindowCreated is
\* ever reported for it, it is in the window registry at most once, and a commit
\* after the promotion reports no WindowCreated.
C3_PromotedAtMostOnce ==
    \A s \in Surfaces :
        /\ created[s] <= 1
        /\ Count(windows, s) <= 1
        /\ Count(trace, WindowCreated(s)) <= 1
        /\ (Count(trace, WindowCreated(s)) = 1 => created[s] = 1 /\ ~find(not_mapped_list, s))

\* a commit of an already promoted window that promoted nothing
C3_Witness ==
    \E s \in Surfaces :
        /\ created[s] = 1
        /\ find(windows, s)
        /\ CommitOf(s)
        /\ Count(trace, WindowCreated(s)) = 0

\* C4: no surface is in the pending registry and in a mapped registry (windows
\* or layers) at the same time.
C4_PendingMappedDisjoint ==
    Range(not_mapped_list) \cap (Range(windows) \cup Range(layers)) = {}

\* all three registries are populated, one surface was promoted, a refresh ran
C4_Witness ==
    /\ last.op = "refresh"
    /\ not_mapped_list # <<>>
    /\ windows # <<>>
    /\ layers # <<>>
    /\ \E s \in Range(windows) : created[s] = 1

\* the resize and move-after-resize state of a window before this step
ResizeOf(s) == data[s][1].resize_state
MoveOf(s) == data[s][1].move_after_resize_state
ActiveResize == {"Resizing", "WaitingForFinalAck", "WaitingForCommit"}
IsWindowWithData(s) == find(windows, s) /\ data[s] # None
GotResizedIn(q, s) == {q[i] : i \in {j \in 1..Len(q) : q[j].type = "WindowGotResized" /\ q[j].surface = s}}

\* the move state m after what the handler itself did in this step's commit, at
\* WindowGotResized or at SurfaceCommit
AfterHandler(m) ==
    LET h == last'.handler IN
    IF h.commit.kind = "queue_move" THEN MoveWaitingForCommit(h.commit.target)
    ELSE IF h.resized.kind = "queue_move" THEN MoveWaitingForCommit(h.resized.target)
    ELSE m

\* what the claim expects of one axis: the initial location plus the shrinkage
ExpectedAxis(edge, d, initial, before, now) ==
    IF edge \in d.edges THEN Some(initial + (before - now)) ELSE None

\* C5: a commit of a mapped window in an active resize state with no queued
\* move-after-resize reports new_x = initial x + (initial w - current w) iff the
\* edges include LEFT and new_y = initial y + (initial h - current h) iff they
\* include TOP; an axis that is not adjusted is absent, and with neither edge
\* nothing is reported.  The two worked examples are instances.
C5_ResizeLocationRule ==
    [][\A s \in Surfaces :
          (/\ CommitStep(s)
           /\ IsWindowWithData(s)
           /\ ResizeOf(s).kind \in ActiveResize
           /\ MoveOf(s).kind # "WaitingForCommit")
          => LET d == ResizeOf(s).data
                 now == buffer'[s][1]
                 ex == ExpectedAxis("LEFT", d, d.initial_window_location.x,
                                    d.initial_window_size.w, now.w)
                 ey == ExpectedAxis("TOP", d, d.initial_window_location.y,
                                    d.initial_window_size.h, now.h)
             IN /\ GotResizedIn(trace', s) =
                       IF ex = None /\ ey = None THEN {} ELSE {WindowGotResized(s, ex, ey)}
                /\ (d = ResizeData(LEFT, Point(10, 20), Size(100, 50)) /\ now = Size(80, 50))
                       => GotResizedIn(trace', s) = {WindowGotResized(s, Some(30), None)}
                /\ (d = ResizeData(TOP_LEFT, Point(0, 0), Size(200, 200)) /\ now = Size(150, 150))
                       => GotResizedIn(trace', s) = {WindowGotResized(s, Some(50), Some(50))}]_vars

\* the first worked example: edges {LEFT}, (10,20), (100,50) -> (80,50)
C5_Witness ==
    /\ CommitOf(1)
    /\ ResizeOf(1) = Resizing(ResizeData(LEFT, Point(10, 20), Size(100, 50)))
    /\ MoveOf(1) = MoveIdle
    /\ buffer[1] = Some(Size(80, 50))
    /\ trace = <<WindowGotResized(1, Some(30), None), SurfaceCommit(1)>>

\* C6: the commit that finds a window's resize state WaitingForCommit leaves it
\* NotResizing, no other commit reaches NotResizing from an active state, and a
\* commit with no active resize and no queued move reports no WindowGotResized
\* and leaves the state NotResizing.
C6_ResizeFinishedOnce ==
    [][\A s \in Surfaces :
          (CommitStep(s) /\ IsWindowWithData(s)) =>
              /\ ResizeOf(s).kind = "WaitingForCommit" => ResizeOf(s)' = NotResizing
              /\ ResizeOf(s).kind \in {"Resizing", "WaitingForFinalAck"} => ResizeOf(s)' = ResizeOf(s)
              /\ (ResizeOf(s).kind = "NotResizing" /\ MoveOf(s).kind # "WaitingForCommit")
                     => (ResizeOf(s)' = NotResizing /\ GotResizedIn(trace', s) = {})]_vars

\* the commit that finished a resize by the top or left edge: the resize state is
\* back to NotResizing, no move was ever queued, and the location was reported
C6_Witness ==
    /\ CommitOf(1)
    /\ ResizeOf(1) = NotResizing
    /\ MoveOf(1) = MoveIdle
    /\ GotResizedIn(trace, 1) # {}

\* C7: the commit that finds a window's move-after-resize state
\* WaitingForCommit(target) reports the target in WindowGotResized and sets
\* the state to Current(target); a commit that finds no queued target leaves the
\* move state as it is and reports only what the resize gives: nothing without
\* an active resize, and an axis only for its edge (LEFT for x, TOP for y). A
\* target the handler queues at WindowCreated is found by that same commit.
\* (The state after the step is that state after whatever move the handler
\* queued anew during the commit.)
C7_QueuedMoveAppliedOnce ==
    [][\A s \in Surfaces :
          /\ (CommitStep(s) /\ last'.handler.created.kind = "queue_move") =>
                 LET t == last'.handler.created.target IN
                 /\ GotResizedIn(trace', s) = {WindowGotResized(s, Some(t.x), Some(t.y))}
                 /\ MoveOf(s)' = AfterHandler(MoveCurrent(t))
          /\ (CommitStep(s) /\ IsWindowWithData(s)) =>
              /\ MoveOf(s).kind = "WaitingForCommit" =>
                     LET t == MoveOf(s).target_window_location IN
                     /\ GotResizedIn(trace', s) = {WindowGotResized(s, Some(t.x), Some(t.y))}
                     /\ MoveOf(s)' = AfterHandler(MoveCurrent(t))
              /\ MoveOf(s).kind # "WaitingForCommit" =>
                     /\ MoveOf(s)' = AfterHandler(MoveOf(s))
                     /\ \A e \in GotResizedIn(trace', s) :
                            /\ ResizeOf(s).kind \in ActiveResize
                            /\ e.new_location_x # None => "LEFT" \in ResizeOf(s).data.edges
                            /\ e.new_location_y # None => "TOP" \in ResizeOf(s).data.edges]_vars

\* the commit that applied the queued target (7,9), which no resize yields
C7_Witness ==
    /\ CommitOf(1)
    /\ MoveOf(1) = MoveCurrent(Point(7, 9))
    /\ GotResizedIn(trace, 1) = {WindowGotResized(1, Some(7), Some(9))}

\* new holds exactly the live entries of old, each as often, in their order
KeepsExactlyLive(old, new, alv) ==
    /\ \A e \in Range(old) : alv[e] <=> e \in Range(new)
    /\ Range(new) \subseteq Range(old)
    /\ \A e \in Range(new) : Count(new, e) = Count(old, e)
    /\ \A i, j \in 1..Len(new) :
           i < j => \E a, b \in 1..Len(old) : a < b /\ old[a] = new[i] /\ old[b] = new[j]

\* C8: refresh() removes from the window, layer and pending registries exactly
\* the entries whose surface was destroyed, and keeps the live entries in order.
C8_RefreshRemovesExactlyDead ==
    [][last'.op = "refresh" =>
          /\ KeepsExactlyLive(windows, windows', alive)
          /\ KeepsExactlyLive(layers, layers', alive)
          /\ KeepsExactlyLive(not_mapped_list, not_mapped_list', alive)]_vars

\* after a refresh: two windows survive in the window registry, and a destroyed
\* surface that was a window is gone from it
C8_Witness ==
    /\ last.op = "refresh"
    /\ Len(windows) >= 2
    /\ \E s \in Surfaces : ~alive[s] /\ created[s] = 1 /\ ~find(windows, s)

\* C9: a failed initial configure send never aborts the process: the
\* orchestrator goes on handling the commits of other surfaces and later events.
C9_SendFailureNotFatal ==
    ~(panicked /\ trace[Len(trace)] = Panic("Initial configure failed"))

InNoRegistry(s) ==
    /\ ~find(not_mapped_list, s)
    /\ ~find(windows, s)
    /\ ~find(layers, s)
    /\ ~find_popup(popups, s)

\* C10: a commit of a surface that is in no registry reports no error, emits no
\* WindowCreated or WindowGotResized, sends no configure, leaves the three
\* registries unchanged and still emits SurfaceCommit. (Nothing follows the
\* SurfaceCommit but the panic of a handler that calls refresh from it.)
C10_UnknownSurfaceCommit ==
    [][\A s \in Surfaces :
          (CommitStep(s) /\ InNoRegistry(s)) =>
              /\ trace' = IF last'.handler.commit = CallsRefresh
                          THEN <<SurfaceCommit(s), Panic("already borrowed")>>
                          ELSE <<SurfaceCommit(s)>>
              /\ panicked' <=> last'.handler.commit = CallsRefresh
              /\ UNCHANGED <<not_mapped_list, windows, layers, popups>>
              /\ UNCHANGED <<configures, created, initial_configure_sent>>]_vars

\* the committed surface has no role, while the registries hold other surfaces
C10_Witness ==
    \E s \in Surfaces :
        /\ CommitOf(s)
        /\ InNoRegistry(s)
        /\ role[s] = "none"
        /\ trace = <<SurfaceCommit(s)>>
        /\ windows # <<>>

\* C11: every layer-shell ack-configure request, whatever its serial, delivers
\* exactly one LayerAckConfigure carrying the request's surface and configure
\* unchanged, and changes no registry and no per-surface state.
C11_AckForwardedUnchanged ==
    [][last'.op = "layer_ack_configure" /\ last' # last =>
          /\ trace' = <<LayerAckConfigure(last'.surface, last'.configure)>>
          /\ UNCHANGED <<alive, role, buffer, data, initial_configure_sent,
                         not_mapped_list, windows, layers, popups, configures, created>>
          /\ ~panicked']_vars

\* an acknowledgement of a serial no configure ever carried was forwarded
C11_Witness ==
    /\ last.op = "layer_ack_configure"
    /\ last.configure.serial = 99
    /\ configures[last.surface] = 0
    /\ trace = <<LayerAckConfigure(last.surface, last.configure)>>

\* C18: every new-layer-surface request delivers exactly one LayerCreated with
\* the request's surface, output, layer and namespace unchanged, and the
\* handler sends no configure.
C18_LayerCreatedUnchanged ==
    [][last'.op = "new_layer_surface" /\ last' # last =>
          /\ trace' = <<LayerCreated(last'.surface, last'.output, last'.layer,
                                     last'.namespace)>>
          /\ configures' = configures
          /\ initial_configure_sent' = initial_configure_sent]_vars

\* a layer surface was requested for a named output
C18_Witness ==
    /\ last.op = "new_layer_surface"
    /\ last.output = Some(1)
    /\ trace = <<LayerCreated(last.surface, Some(1), last.layer, last.namespace)>>
    /\ configures[last.surface] = 0

C14_QueuedMoveOverridesResize ==
    [][\A s \in Surfaces :
          (/\ CommitStep(s)
           /\ IsWindowWithData(s)
           /\ ResizeOf(s).kind \in ActiveResize
           /\ intersects(ResizeOf(s).data.edges, TOP_LEFT)
           /\ MoveOf(s).kind = "WaitingForCommit") =>
              LET t == MoveOf(s).target_window_location IN
              /\ TypeCount(trace', "WindowGotResized") = 1
              /\ GotResizedIn(trace', s) = {WindowGotResized(s, Some(t.x), Some(t.y))}
              /\ MoveOf(s)' = AfterHandler(MoveCurrent(t))
              /\ ResizeOf(s)' = IF ResizeOf(s).kind = "WaitingForCommit"
                                THEN NotResizing ELSE ResizeOf(s)]_vars

\* a commit during a resize by the left edge that shrank the window, which alone
\* would report x = 30, reported the queued target (7,9)
C14_Witness ==
    /\ CommitOf(1)
    /\ ResizeOf(1) = Resizing(ResizeData(LEFT, Point(10, 20), Size(100, 50)))
    /\ buffer[1] = Some(Size(80, 50))
    /\ MoveOf(1) = MoveCurrent(Point(7, 9))
    /\ trace = <<WindowGotResized(1, Some(7), Some(9)), SurfaceCommit(1)>>

\* C15: whatever the active resize state, a commit of a mapped window whose
\* resize edges include neither LEFT nor TOP, and with no queued move, adjusts
\* no location and delivers no WindowGotResized.
C15_RightBottomResizeSilent ==
    [][\A s \in Surfaces :
          (/\ CommitStep(s)
           /\ IsWindowWithData(s)
           /\ ResizeOf(s).kind \in ActiveResize
           /\ ~intersects(ResizeOf(s).data.edges, TOP_LEFT)
           /\ MoveOf(s).kind # "WaitingForCommit") =>
              /\ TypeCount(trace', "WindowGotResized") = 0
              /\ Notifications(trace') = <<SurfaceCommit(s)>>]_vars

\* a commit during a resize by the bottom-right corner that shrank the window
C15_Witness ==
    /\ CommitOf(1)
    /\ ResizeOf(1) = Resizing(ResizeData(BOTTOM_RIGHT, Point(10, 20), Size(100, 50)))
    /\ buffer[1] = Some(Size(80, 50))
    /\ MoveOf(1) = MoveIdle
    /\ trace = <<SurfaceCommit(1)>>

\* the two transitions a commit makes in a mapped window's SurfaceData
AfterCommit(d) ==
    [resize_state |-> IF d.resize_state.kind = "WaitingForCommit"
                      THEN NotResizing ELSE d.resize_state,
     move_after_resize_state |->
         IF d.move_after_resize_state.kind = "WaitingForCommit"
         THEN MoveCurrent(d.move_after_resize_state.target_window_location)
         ELSE d.move_after_resize_state]

\* C16: a commit changes per-surface auxiliary state only by the transitions
\* WaitingForCommit -> NotResizing of the resize state and WaitingForCommit(t) ->
\* Current(t) of the move state, and only for the committing surface when it is
\* a mapped window; NotResizing, Resizing, WaitingForFinalAck, Idle, Current and
\* the state of every other surface are left as they were. (A slot that did not
\* exist starts from the default state; a move the handler itself queues
\* during the commit is the handler's change, at WindowCreated before the
\* commit's transitions and at the later notifications after them.)
C16_CommitFrame ==
    [][\A s \in Surfaces : CommitStep(s) =>
          \A t \in Surfaces :
              IF t = s /\ find(windows', s)
              THEN LET h == last'.handler
                       base == IF data[s] = None THEN SurfaceDataDefault ELSE data[s][1]
                       found == IF h.created.kind = "queue_move"
                                THEN [base EXCEPT !.move_after_resize_state =
                                                      MoveWaitingForCommit(h.created.target)]
                                ELSE base
                       left == AfterCommit(found)
                   IN data'[s] = Some([left EXCEPT !.move_after_resize_state = AfterHandler(@)])
              ELSE /\ data[t] = None => data'[t] \in {None, Some(SurfaceDataDefault)}
                   /\ data[t] # None => data'[t] = data[t]]_vars

\* window 1's commit applied its queued move while window 2 kept a finished
\* resize and a queued move of its own
C16_Witness ==
    /\ CommitOf(1)
    /\ GotResizedIn(trace, 1) = {WindowGotResized(1, Some(7), Some(9))}
    /\ MoveOf(1) = MoveCurrent(Point(7, 9))
    /\ data[2] # None
    /\ ResizeOf(2).kind = "WaitingForCommit"
    /\ MoveOf(2).kind = "WaitingForCommit"
    /\ data[3] = Some(SurfaceDataDefault)

\* the place of an entry of a commit's log in the commit's order of steps:
\* 1 buffer import, 2 popup tracker, 3 lazy initialisation of the subtree,
\* 4 promotion attempt (with WindowCreated and a popup's initial configure),
\* 5 mapped-window update (with WindowGotResized), 6 layer initial configure,
\* 7 SurfaceCommit; a panic ends the log
StepRank(e) ==
    IF e.type = "call"
    THEN IF e.callee = "on_commit_buffer_handler" THEN 1
         ELSE IF e.callee = "popup_manager.commit" THEN 2
         ELSE IF e.callee = "with_surface_tree_upward" THEN 3
         ELSE IF e.callee = "try_map_unmaped" THEN 4
         ELSE IF e.callee = "try_update_mapped" THEN 5
         ELSE 0
    ELSE IF e.type = "WindowCreated" THEN 4
    ELSE IF e.type = "send_configure"
    THEN IF role[e.surface] = "popup" THEN 4
         ELSE IF role[e.surface] = "layer" THEN 6
         ELSE 0
    ELSE IF e.type = "WindowGotResized" THEN 5
    ELSE IF e.type = "SurfaceCommit" THEN 7
    ELSE IF e.type = "panic" THEN 8
    ELSE 0

\* the rank of every entry of a log
Ranks(log) == [i \in 1..Len(log) |-> StepRank(log[i])]

\* the steps 1..7 that have an entry in a log with ranks rk
StepsOf(rk) == Range(rk) \ {8}

\* a log with ranks rk has its entries in the order of the steps: the ranks
\* never fall from one entry to the next, and they rise at a call (a step's
\* call comes after every earlier step and before what the step delivers), at
\* SurfaceCommit and at a panic
InStepOrder(log, rk) ==
    /\ \A i \in 1..Len(log) : rk[i] \in 1..8
    /\ \A j \in 2..Len(log) :
           IF log[j].type = "call" \/ rk[j] \in {7, 8}
           THEN rk[j - 1] < rk[j]
           ELSE rk[j - 1] <= rk[j]

\* the log of a commit of s has the steps the commit must run, and the layer
\* configure exactly when it is due, right between the update and SurfaceCommit
StepsPresent(s, log, rk, steps) ==
    /\ {1, 2, 4} \subseteq steps
    /\ 3 \in steps <=> ~is_sync_subsurface(s)
    /\ ~panicked' => {5, 7} \subseteq steps
    /\ 7 \in steps => (6 \in steps <=> find(layers, s) /\ ~initial_configure_sent[s])
    /\ 6 \in steps =>
           /\ \E i \in 2..(Len(log) - 1) :
                  /\ rk[i - 1] = 5
                  /\ log[i] = SendConfigure(s)
                  /\ log[i + 1] = SurfaceCommit(s)
           /\ configures'[s] = configures[s] + 1
           /\ initial_configure_sent'[s]

\* C17: within a commit the steps run in a fixed order: buffer import, popup
\* tracker, lazy initialisation of the auxiliary state of the surface's subtree
\* (skipped for a synchronized subsurface), promotion of a pending toplevel,
\* update of a mapped window, layer initial configure, SurfaceCommit. The log
\* of the commit has the steps in exactly this order, each step's call before
\* what the step delivers, the initialisation exactly when the surface is no
\* synchronized subsurface, the layer configure exactly when the surface is a
\* registered layer surface whose flag is false, and what the commit
\* delivered is the log without the calls. So the buffer the surface has
\* after this commit's import decides the promotion, a surface's slot exists before
\* promotion and update use it, a move queued at WindowCreated is applied by
\* the update of the same commit, an existing slot is never overwritten by
\* the initialisation, a synchronized subsurface's commit creates no slot,
\* and SurfaceCommit comes last unless the commit panicked before it.
C17_CommitStepOrder ==
    [][\A s \in Surfaces : CommitStep(s) =>
          LET n == Notifications(trace') IN
          /\ trace' = Deliveries(last'.steps)
          /\ InStepOrder(last'.steps, Ranks(last'.steps))
          /\ StepsPresent(s, last'.steps, Ranks(last'.steps), StepsOf(Ranks(last'.steps)))
          /\ find(not_mapped_list, s) =>
                 IF buffer'[s] # None
                 THEN /\ find(windows', s) /\ ~find(not_mapped_list', s)
                      /\ data'[s] # None
                      /\ ResizeOf(s)' = NotResizing
                      /\ n[1] = WindowCreated(s)
                      /\ last'.handler.created.kind = "queue_move" =>
                             n[2] = WindowGotResized(s, Some(last'.handler.created.target.x),
                                                     Some(last'.handler.created.target.y))
                 ELSE ~find(windows', s) /\ find(not_mapped_list', s)
          /\ IF is_sync_subsurface(s)
             THEN \A t \in Surfaces : data[t] = None => data'[t] = None
             ELSE \A t \in surface_tree(s) :
                      /\ data'[t] # None
                      /\ data[t] # None /\ t # s => data'[t] = data[t]
                      /\ data[t] # None /\ t = s =>
                             /\ ResizeOf(s).kind \in {"Resizing", "WaitingForFinalAck"}
                                    => ResizeOf(s)' = ResizeOf(s)
                             /\ MoveOf(s).kind = "Current"
                                    => MoveOf(s)' = AfterHandler(MoveOf(s))
          /\ ~panicked' => n[Len(n)] = SurfaceCommit(s)
          /\ \A i \in 1..Len(n) : n[i].type = "SurfaceCommit" => i = Len(n)]_vars

\* the commit of a layer surface ran all seven steps, the layer's initial
\* configure between the update and SurfaceCommit, after a commit of window 1
\* had applied a queued move
C17_Witness ==
    /\ CommitOf(2)
    /\ role[2] = "layer"
    /\ last.steps = <<Call("on_commit_buffer_handler"), Call("popup_manager.commit"),
                      Call("with_surface_tree_upward"), Call("try_map_unmaped"),
                      Call("try_update_mapped"), SendConfigure(2), SurfaceCommit(2)>>
    /\ trace = <<SendConfigure(2), SurfaceCommit(2)>>
    /\ configures[2] = 1
    /\ data[2] = Some(SurfaceDataDefault)
    /\ MoveOf(1) = MoveCurrent(Point(7, 9))

\* the callbacks init_shell registers
Callbacks == {"surface_commit", "xdg_shell_request", "wlr_layer_shell_request"}

\* C12: the three protocol callbacks work on one shared orchestrator, at most
\* one mutable access to it is alive at any time, and an attempt to acquire it
\* while it is held fails loudly (the process panics) instead of proceeding.
C12_ExclusiveAccess ==
    /\ borrows \in {0, 1}
    /\ call.cb \in Callbacks /\ ~panicked => borrows = 1
    /\ call.phase = "reentered" =>
           /\ panicked
           /\ borrows = 1
           /\ trace[Len(trace)] = Panic("already borrowed")

\* the layer-shell callback held the access when a second one was asked for
C12_Witness ==
    /\ call.cb = "wlr_layer_shell_request"
    /\ call.phase = "reentered"
    /\ borrows = 1
    /\ panicked
    /\ \E i \in 1..Len(trace) : trace[i].type = "LayerAckConfigure"

\* C19: notifications reach the handler while the callback holds the exclusive
\* access, which it holds for the whole commit or request; a handler that
\* calls ShellManager::refresh from inside on_shell_event hits the guard and
\* the process panics with the registries untouched; refresh called between
\* events acquires and releases the access three times in a row, once per
\* registry, without conflict.
C19_HandlerRunsUnderBorrow ==
    [][/\ call'.phase = "handler" =>
              /\ borrows' = 1
              /\ call'.cb \in Callbacks
              /\ Notifications(trace') # <<>>
       /\ (call.phase = "handler" /\ call'.phase = "reentered") =>
              /\ panicked'
              /\ trace' = trace \o <<Panic("already borrowed")>>
              /\ UNCHANGED <<windows, layers, not_mapped_list>>
       /\ (call = Idle /\ call'.cb = "surface_commit") =>
              LET h == last'.handler
                  reenters == CallsRefresh \in {h.created, h.resized, h.commit}
              IN
              /\ borrows' = 1
              /\ reenters <=> (panicked' /\ trace'[Len(trace')] = Panic("already borrowed"))
              /\ reenters <=> call'.phase = "reentered"
              /\ reenters => IsNotification(trace'[Len(trace') - 1])
       /\ (call.phase \in {"handler", "body"} /\ call' = Idle) => borrows = 1 /\ borrows' = 0
       /\ call'.cb = "refresh" =>
              /\ call.cb \in {"none", "refresh"}
              /\ ~panicked'
              /\ borrows' = IF call'.phase = "borrowed" THEN 1 ELSE 0
              /\ borrows # borrows'
       /\ (call.cb = "refresh" /\ call' = Idle) =>
              /\ call.n = 2
              /\ borrows = 1 /\ borrows' = 0
              /\ ~panicked']_vars

\* the commit callback had delivered SurfaceCommit when its handler called
\* refresh
C19_Witness ==
    /\ call.cb = "surface_commit"
    /\ call.phase = "reentered"
    /\ panicked
    /\ Len(trace) >= 2
    /\ trace[Len(trace) - 1].type = "SurfaceCommit"
    /\ trace[Len(trace)] = Panic("already borrowed")

\* C20: the pressed-key set holds exactly the keysyms whose most recent key
\* event was Pressed: Pressed inserts the keysym (again if it is there
\* already, to no effect), any other state removes it, and releasing a keysym
\* that is not in the set leaves the set as it was.
C20_PressedKeysAreLastPressed ==
    [][LET k == key_event'.keysym
           st == key_event'.state
       IN
       /\ pressed_keys' = {j \in Keysyms : recent'[j] = "Pressed"}
       /\ st = "Pressed" => k \in pressed_keys' /\ pressed_keys' \ {k} = pressed_keys \ {k}
       /\ st # "Pressed" => k \notin pressed_keys' /\ pressed_keys' = pressed_keys \ {k}
       /\ (st = "Pressed" /\ k \in pressed_keys) => pressed_keys' = pressed_keys
       /\ (st # "Pressed" /\ k \notin pressed_keys) => pressed_keys' = pressed_keys]_vars

\* a key that was not held was released; the two keys that are held stay held
C20_Witness ==
    /\ key_event.state = "Released"
    /\ ~key_event.held
    /\ key_event.keysym \notin pressed_keys
    /\ Cardinality(pressed_keys) = 2

====
